---- MODULE Spec2Model ----
(***************************************************************************)
(* Harmonic-oscillator page of waveplot (src/pages/core/vibrations.py):    *)
(* the four parameter fields with their "fixed" checkboxes, the callback   *)
(* chain update_inputs -> calc_data -> update_plot, and download_data.     *)
(*                                                                         *)
(* Numbers.  The program computes in binary floating point.  The model     *)
(* computes with exact real numbers of the form                            *)
(*      sg * 2^(a/8) * 3^(b/8) * ... * 97^(y/8)                            *)
(*         * pi^(.) * c^(.) * h^(.) * amu^(.) * J^(.) * w0^(.)             *)
(* (a sign and exponents, in eighths, of the primes up to 97 and of the    *)
(* physical constants and literals the code names), which is closed under  *)
(* every product, quotient, power and square root the code takes, and      *)
(* under the sums of like terms it forms.  Floating-point rounding error   *)
(* is therefore not modelled; an equality below is an equality of reals.   *)
(***************************************************************************)
EXTENDS Integers, Sequences, FiniteSets, TLC

\* ------------------------------------------------------------------ numbers

Primes ==
    <<2, 3, 5, 7, 11, 13, 17, 19, 23, 29, 31, 37, 41, 43, 47, 53, 59, 61, 67,
      71, 73, 79, 83, 89, 97>>
NP == Len(Primes)
\* after the primes: pi, LIGHT, HBAR, 1.6605E-27, 1.98630E-23, 18145.84
NAtoms == NP + 6
AtomIdx == 1..NAtoms

\* the(S) is the element of the singleton S.  { e(v) : v \in {E} } has E
\* evaluated once, however often e uses v.
the(S) == CHOOSE v \in S : TRUE

NoExp == [i \in AtomIdx |-> 0]
Zero == [sg |-> 0, e |-> NoExp]
One == [sg |-> 1, e |-> NoExp]
ConstAtom(k) == [sg |-> 1, e |-> [i \in AtomIdx |-> IF i = NP + k THEN 8 ELSE 0]]

RECURSIVE ExpOf(_, _)
ExpOf(n, p) == IF n % p = 0 THEN 1 + ExpOf(n \div p, p) ELSE 0

RECURSIVE IPow(_, _)
IPow(b, k) == IF k = 0 THEN 1 ELSE b * IPow(b, k - 1)

\* the product of the model's primes raised to the exponents ex
RECURSIVE PrimePowers(_, _)
PrimePowers(ex, i) ==
    IF i > NP THEN 1
    ELSE IPow(Primes[i], ex[i]) * PrimePowers(ex, i + 1)

Abs(n) == IF n < 0 THEN -n ELSE n
Sign(n) == IF n < 0 THEN -1 ELSE IF n = 0 THEN 0 ELSE 1

\* A value outside the representation (an integer with a prime factor
\* above the model's primes, a sum of unlike terms, a root that leaves the
\* exponents' grid): evaluation stops there with an error, so no run that
\* completes has met one.
NotRepresented(x) == CHOOSE v \in {} : v = x

FromInt(n) ==
    IF n = 0 THEN Zero
    ELSE the({IF PrimePowers(ex, 1) # Abs(n) THEN NotRepresented(n)
              ELSE [sg |-> Sign(n),
                    e |-> [i \in AtomIdx |->
                              IF i <= NP THEN 8 * ex[i] ELSE 0]]
              : ex \in {[i \in 1..NP |-> ExpOf(Abs(n), Primes[i])]}})

Neg(a) == [a EXCEPT !.sg = -a.sg]
Mul(a, b) ==
    IF a.sg = 0 \/ b.sg = 0 THEN Zero
    ELSE [sg |-> a.sg * b.sg, e |-> [i \in AtomIdx |-> a.e[i] + b.e[i]]]
Inv(a) == [a EXCEPT !.e = [i \in AtomIdx |-> -a.e[i]]]
Div(a, b) == Mul(a, Inv(b))
Rat(n, d) == Div(FromInt(n), FromInt(d))
Sq(a) == Mul(a, a)
\* a ** k for an integer k
Pow(a, k) == IF a.sg = 0 THEN Zero
             ELSE [sg |-> IF k % 2 = 0 THEN 1 ELSE a.sg,
                   e |-> [i \in AtomIdx |-> k * a.e[i]]]
\* square root of a non-negative number
Sqrt(a) ==
    IF a.sg = -1 \/ \E i \in AtomIdx : a.e[i] % 2 # 0 THEN NotRepresented(a)
    ELSE [a EXCEPT !.e = [i \in AtomIdx |-> a.e[i] \div 2]]
\* fourth root, as x ** 0.25
Root4(a) ==
    IF a.sg = -1 \/ \E i \in AtomIdx : a.e[i] % 4 # 0 THEN NotRepresented(a)
    ELSE [a EXCEPT !.e = [i \in AtomIdx |-> a.e[i] \div 4]]

IsRational(a) ==
    \A i \in AtomIdx : a.e[i] % 8 = 0 /\ (i > NP => a.e[i] = 0)

RECURSIVE NumFrom(_, _)
NumFrom(a, i) ==
    IF i > NP THEN 1
    ELSE (IF a.e[i] > 0 THEN IPow(Primes[i], a.e[i] \div 8) ELSE 1)
         * NumFrom(a, i + 1)
Numer(a) == a.sg * NumFrom(a, 1)
Denom(a) == NumFrom(Inv(a), 1)

\* a + b for like terms (a / b rational), the only sums the code forms
Add(a, b) ==
    IF a.sg = 0 THEN b
    ELSE IF b.sg = 0 THEN a
    ELSE the({IF ~IsRational(r) THEN NotRepresented(r)
              ELSE Mul(b, Rat(Numer(r) + Denom(r), Denom(r)))
              : r \in {Div(a, b)}})
Sub(a, b) == Add(a, Neg(b))
Less(a, b) == Sub(a, b).sg = -1

\* ---------------------------------------------------------------- constants

\* np.pi
PI == ConstAtom(1)
\* c in cm s-1
LIGHT == ConstAtom(2)
HBAR == ConstAtom(3)
\* the literal 1.6605E-27 (kg per g mol-1)
AMU == ConstAtom(4)
\* the literal 1.98630E-23 (J per cm-1)
JCM == ConstAtom(5)
\* the placeholder literal 18145.84 of the angular-wavenumber field
ANG_WN_DEFAULT == ConstAtom(6)
TWO == FromInt(2)
HALF == Rat(1, 2)
TWOPI == Mul(TWO, PI)

\* ------------------------------------------------------------------- arrays


\* A numpy array of like terms: element i is s * c[i] / d.
ArrLen(a) == Len(a.c)
ArrAt(a, i) == Mul(a.s, Rat(a.c[i], a.d))
ArrScale(a, v) == [a EXCEPT !.s = Mul(a.s, v)]
\* a ** 2
ArrSq(a0) ==
    the({[s |-> Sq(a.s), c |-> [i \in 1..Len(a.c) |-> a.c[i] * a.c[i]],
          d |-> a.d * a.d] : a \in {a0}})

\* the grid without its endpoint: step = (stop - start) / num
linspace_open(start, stop, num) ==
    the({the({[s |-> step,
               c |-> [i \in 1..num |-> r[1] + (i - 1) * r[2]],
               d |-> r[2]]
              : r \in {<<Numer(Div(start, step)), Denom(Div(start, step))>>}})
         : step \in {Div(Sub(stop, start), FromInt(num))}})

\* np.linspace(start, stop, num): start + i * step, i = 0..num-1,
\* step = (stop - start) / (num - 1)
linspace(start, stop, num) ==
    the({the({[s |-> step,
               c |-> [i \in 1..num |-> r[1] + (i - 1) * r[2]],
               d |-> r[2]]
              : r \in {<<Numer(Div(start, step)), Denom(Div(start, step))>>}})
         : step \in {Div(Sub(stop, start), FromInt(num - 1))}})

\* min() and max() of the elements
ArrMin(a0) ==
    the({ArrAt(a, CHOOSE i \in 1..ArrLen(a) :
                     \A j \in 1..ArrLen(a) : a.s.sg * a.c[i] <= a.s.sg * a.c[j])
         : a \in {a0}})
ArrMax(a0) ==
    the({ArrAt(a, CHOOSE i \in 1..ArrLen(a) :
                     \A j \in 1..ArrLen(a) : a.s.sg * a.c[i] >= a.s.sg * a.c[j])
         : a \in {a0}})

\* ------------------------------------------------- the oscillator functions

GRID_POINTS == 100

RECURSIVE factorial(_)
factorial(n) == IF n = 0 THEN One ELSE Mul(FromInt(n), factorial(n - 1))

\* every state's energy is that of n = 0
state_E_ground(omega, max_n) ==
    [i \in 1..(max_n + 1) |-> Mul(Mul(HBAR, omega), Add(FromInt(0), HALF))]

\* [HBAR * omega * (n + 0.5) for n in range(0, max_n + 1)]
state_E(omega, max_n) ==
    [i \in 1..(max_n + 1) |-> Mul(Mul(HBAR, omega), Add(FromInt(i - 1), HALF))]

calc_harmonic_energies(k, m, max_n) ==
    LET omega == Div(Sqrt(Div(k, m)), TWOPI)
        max_x == Sqrt(Div(Mul(Mul(Mul(Add(FromInt(max_n), HALF), TWO), HBAR),
                              omega), k))
        zpd == Sqrt(Div(Mul(HBAR, omega), k))
    IN  the({[state_E |-> state_E(omega, max_n),
              harmonic_E |-> ArrScale(ArrSq(displacement), Mul(HALF, k)),
              displacement |-> displacement, zpd |-> zpd]
             : displacement \in {linspace(Neg(Mul(max_x, Rat(12, 10))),
                                          Mul(max_x, Rat(12, 10)),
                                          GRID_POINTS)}})

\* the recursion with 2 * n for 2 * (n-1)
RECURSIVE hermite_2n(_, _)
hermite_2n(n, x) ==
    IF n = 0 THEN [i \in DOMAIN x |-> x[i] * 0 + 1]
    ELSE IF n = 1 THEN [i \in DOMAIN x |-> 2 * x[i]]
    ELSE the({[i \in DOMAIN x |-> 2 * x[i] * h[1][i] - 2 * n * h[2][i]]
              : h \in {<<hermite_2n(n - 1, x), hermite_2n(n - 2, x)>>}})

\* hermite(n, x) for an array x, element by element.  The elements are
\* integers here, on which the floating-point operations of the code are
\* exact.
RECURSIVE hermite(_, _)
hermite(n, x) ==
    IF n = 0 THEN [i \in DOMAIN x |-> x[i] * 0 + 1]
    ELSE IF n = 1 THEN [i \in DOMAIN x |-> 2 * x[i]]
    ELSE the({[i \in DOMAIN x |-> 2 * x[i] * h[1][i] - 2 * (n - 1) * h[2][i]]
              : h \in {<<hermite(n - 1, x), hermite(n - 2, x)>>}})

\* The calls of hermite nested inside the call hermite(n, x), at their
\* deepest: none for n = 0 and n = 1, else one more than inside the deeper
\* of hermite(n - 1, x) and hermite(n - 2, x).
RECURSIVE hermite_depth(_)
hermite_depth(n) ==
    IF n = 0 THEN 0
    ELSE IF n = 1 THEN 0
    ELSE the({1 + (IF d[1] > d[2] THEN d[1] ELSE d[2])
              : d \in {<<hermite_depth(n - 1), hermite_depth(n - 2)>>}})

\* the mass left in kg
calculate_mu_kg(w, k) == Div(k, Sq(w))

calculate_mu(w, k) == Div(Div(k, Sq(w)), AMU)

\* the mass left in g mol-1
calculate_k_gmol(w, mu) == Mul(mu, Sq(w))

calculate_k(w, mu) == Mul(Mul(mu, AMU), Sq(w))

\* The wavefunction over x: hermite(n, beta * x) * N * exp(-beta**2 * x**2 / 2)
\* element by element, kept as the three things that determine it.
harmonic_wf(n, x, m, omega) ==
    LET beta == Sqrt(Div(Mul(m, omega), HBAR))
        N == Mul(Inv(Sqrt(Mul(Pow(TWO, n), factorial(n)))),
                 Root4(Div(Mul(m, omega), Mul(PI, HBAR))))
    IN  [n |-> n, bx |-> ArrScale(x, beta), N |-> N]


\* ------------------------------------------------------------ the callbacks

None == <<>>
Some(v) == <<v>>
\* dash.no_update, and a callback that raised
no_update == [no_update |-> TRUE]
Raise(e) == [raise |-> e]
Raised(r) == "raise" \in DOMAIN r
EmptyDict == <<>>
\* the literal 10E10
TEN_E10 == Pow(FromInt(10), 11)

\* round(a, nd).  A rational is rounded to nd decimals, ties to even.  The
\* decimal expansion of any other number (a multiple of a root, of pi, of
\* c ...) is not computed: its rounding is the multiple of 10^-nd passed
\* as hint, and the callers range hint over every displayable value.
round(a, nd, hint) ==
    IF ~IsRational(a) THEN hint
    ELSE LET s == IPow(10, nd)
             q == (Abs(Numer(a)) * s) \div Denom(a)
             rem == (Abs(Numer(a)) * s) % Denom(a)
             up == 2 * rem > Denom(a) \/ (2 * rem = Denom(a) /\ q % 2 = 1)
         IN  Rat(a.sg * (IF up THEN q + 1 ELSE q), s)

\* the flags of the two wavenumbers taken for one another
on_off_swapped(lin_wn_fix, ang_wn_fix, fc_fix, mu_fix) ==
    <<~ang_wn_fix, ~lin_wn_fix, ~fc_fix, ~mu_fix>>

\* lin_wn_disable, ang_wn_disable, fc_disable, mu_disable: every entry is
\* uneditable but the 'fixed' ones
on_off(lin_wn_fix, ang_wn_fix, fc_fix, mu_fix) ==
    <<~lin_wn_fix, ~ang_wn_fix, ~fc_fix, ~mu_fix>>

\* the count alone, both wavenumbers fixed let through
invalid_fix_count(lin_wn_fix, ang_wn_fix, fc_fix, mu_fix) ==
    Cardinality({i \in 1..4 :
        <<ang_wn_fix, lin_wn_fix, fc_fix, mu_fix>>[i]}) # 2

\* sum([ang_wn_fix, lin_wn_fix, fc_fix, mu_fix]) != 2 or ang_wn_fix and lin_wn_fix
invalid_fix(lin_wn_fix, ang_wn_fix, fc_fix, mu_fix) ==
    \/ Cardinality({i \in 1..4 :
           <<ang_wn_fix, lin_wn_fix, fc_fix, mu_fix>>[i]}) # 2
    \/ (ang_wn_fix /\ lin_wn_fix)

\* the mass rounded like the other three
rounded_all_2(lin_wn, ang_wn, fc, mu, hint) ==
    <<round(lin_wn, 2, hint[1]), round(ang_wn, 2, hint[2]),
      round(fc, 2, hint[3]), round(mu, 2, hint[4])>>

\* [round(lin_wn, 2), round(ang_wn, 2), round(fc, 2), round(mu, 4)]
rounded(lin_wn, ang_wn, fc, mu, hint) ==
    <<round(lin_wn, 2, hint[1]), round(ang_wn, 2, hint[2]),
      round(fc, 2, hint[3]), round(mu, 4, hint[4])>>

update_inputs(lin_wn, ang_wn, fc, mu, lin_wn_fix, ang_wn_fix, fc_fix, mu_fix, hint) ==
    IF invalid_fix(lin_wn_fix, ang_wn_fix, fc_fix, mu_fix) THEN
        [vars |-> [fc |-> None, mu |-> None],
         rounded |-> rounded(lin_wn, ang_wn, fc, mu, hint),
         on_off |-> on_off(lin_wn_fix, ang_wn_fix, fc_fix, mu_fix)]
    ELSE
        \* Calculate missing parameters
        LET from_ang == ang_wn_fix /\ ~lin_wn_fix
            from_lin == lin_wn_fix /\ ~ang_wn_fix
            from_fc_mu == ~ang_wn_fix /\ ~lin_wn_fix
            omega == IF from_ang THEN Mul(ang_wn, LIGHT)
                     ELSE Mul(Mul(Mul(lin_wn, TWO), PI), LIGHT)
            ang_wn2 == IF from_ang THEN ang_wn
                       ELSE IF from_lin THEN Mul(Mul(lin_wn, TWO), PI)
                       ELSE IF from_fc_mu
                            THEN Div(Sqrt(Div(fc, Mul(mu, AMU))), LIGHT)
                       ELSE ang_wn
            lin_wn2 == IF from_ang \/ from_fc_mu THEN Div(ang_wn2, TWOPI)
                       ELSE lin_wn
            mu2 == IF (from_ang \/ from_lin) /\ fc_fix /\ ~mu_fix
                   THEN calculate_mu(omega, fc) ELSE mu
            fc2 == IF (from_ang \/ from_lin) /\ ~fc_fix /\ mu_fix
                   THEN calculate_k(omega, mu) ELSE fc
        IN  [vars |-> [fc |-> Some(fc2), mu |-> Some(Mul(mu2, AMU)),
                       ang_wn |-> Some(ang_wn2), lin_wn |-> Some(lin_wn2)],
             rounded |-> rounded(lin_wn2, ang_wn2, fc2, mu2, hint),
             on_off |-> on_off(lin_wn_fix, ang_wn_fix, fc_fix, mu_fix)]

MAX_N_DEFAULT == 5

\* the dataset calc_data builds from a record without None
final(vars, max_n) ==
    LET n_max == IF max_n = None THEN MAX_N_DEFAULT ELSE max_n[1]
    IN  the({[x |-> ArrScale(che.displacement, TEN_E10),
              wf |-> [i \in 1..(n_max + 1) |->
                         harmonic_wf(i - 1, che.displacement, vars.mu[1],
                                     Mul(vars.ang_wn[1], LIGHT))],
              states |-> [i \in 1..Len(che.state_E) |->
                             Div(che.state_E[i], JCM)],
              potential |-> ArrScale(che.harmonic_E, Inv(JCM))]
             : che \in {calc_harmonic_energies(vars.fc[1], vars.mu[1],
                                               n_max)}})

\* an undefined parameter empties the store
calc_data_clears(vars, max_n) ==
    IF \E key \in DOMAIN vars : vars[key] = None THEN EmptyDict
    ELSE IF ~({"fc", "mu", "ang_wn"} \subseteq DOMAIN vars)
    THEN Raise("KeyError")
    ELSE final(vars, max_n)

calc_data(vars, max_n) ==
    IF \E key \in DOMAIN vars : vars[key] = None THEN no_update
    ELSE IF ~({"fc", "mu", "ang_wn"} \subseteq DOMAIN vars)
    THEN Raise("KeyError")
    ELSE final(vars, max_n)

\* the y axis drawn from the lowest to the highest state energy
yaxis_range_tight(states) == <<states[1], states[Len(states)]>>

\* [lowen, upen], the range of the y axis, for two states or more
yaxis_range(states) ==
    LET nst == Len(states)
        upen == Sub(Mul(TWO, states[nst]), states[nst - 1])
        lowen == Sub(states[1],
                     Div(Sub(states[nst], states[nst - 1]), TWO))
    IN  <<lowen, upen>>

update_plot(data) ==
    LET nst == Len(data.states)
        potential == <<[name |-> "potential", x |-> data.x,
                        y |-> data.potential]>>
        states == the({[i \in 1..nst |->
                           [name |-> "state", x |-> xx,
                            y |-> <<data.states[i], data.states[i]>>]]
                       : xx \in {<<ArrMin(data.x), ArrMax(data.x)>>}})
        nwf == IF Len(data.wf) < nst THEN Len(data.wf) ELSE nst
        wfs == [i \in 1..nwf |->
                   [name |-> "wf", x |-> data.x,
                    y |-> [scale |-> Rat(1, 100), wf |-> data.wf[i],
                           offset |-> data.states[i]]]]
    IN
    \* data['states'][-2]
    IF nst < 2 THEN Raise("IndexError")
    ELSE [range |-> yaxis_range(data.states),
          data |-> potential \o states \o wfs]

\* '{:.6f}'.format(v); for an array, of each of its elements in turn
Fmt(v, digits) == [v |-> v, digits |-> digits]
\* zip(a, b) of two arrays
Min(i, j) == IF i < j THEN i ELSE j

\* the file download_data writes for a dataset
output(data) ==
    \* zip() stops at the shorter of its two arguments
    LET npot == Min(ArrLen(data.x), ArrLen(data.potential))
        nrow == Min(ArrLen(data.x), Len(data.wf))
    IN
    [filename |-> "waveplot_harmonic_data.dat",
     content |->
       <<[title |-> "Vibrational wavefunction data calculated using waveplot.com / A tool by Jon Kragskow",
          rows |-> <<>>],
         [title |-> "State energies (cm-1)",
          rows |-> [i \in 1..Len(data.states) |->
                       <<Fmt(data.states[i], 6)>>]],
         [title |-> "Displacement (A), Harmonic potential (cm-1)",
          \* row i is element i of the first column, then of the second
          rows |-> [n |-> npot,
                    cols |-> <<Fmt(ArrScale(data.x, TEN_E10), 6),
                               Fmt(data.potential, 6)>>]],
         [title |-> "Displacement (A), Harmonic Wavefunction for n=0, n=1, ...",
          rows |-> [i \in 1..nrow |->
                       <<Fmt(Mul(ArrAt(data.x, i), TEN_E10), 8),
                         Fmt(data.wf[i], 8)>>]]>>]

\* the early return taken whatever the dataset holds
download_data_never(nc, data) == no_update

\* an empty dataset written as a file with no content
download_data_empty_file(nc, data) ==
    IF Cardinality(DOMAIN data) = 0
    THEN [filename |-> "waveplot_harmonic_data.dat", content |-> <<>>]
    ELSE output(data)

\* the file with the state energies written after the two tables
download_data_energies_last(nc, data) ==
    IF Cardinality(DOMAIN data) = 0 THEN no_update
    ELSE the({[o EXCEPT !.content = <<o.content[1], o.content[3],
                                      o.content[4], o.content[2]>>]
              : o \in {output(data)}})

download_data(nc, data) ==
    \* if not len(data)
    IF Cardinality(DOMAIN data) = 0 THEN no_update
    ELSE output(data)

\* ---------------------------------------------------------------- the page

VARIABLES
    val,          \* value of the four number fields
    fix,          \* value of the four "fixed" checkboxes
    disabled,     \* disabled property of the four number fields
    max_n,        \* value of the Max. n field (None when cleared)
    var_store,    \* options.var_store data
    store,        \* plot_div.store data
    fig,          \* the figure patch last returned by update_plot
    trigger,      \* options.download_trigger data
    pc,           \* the callback the page runs next
    exc,          \* exception raised in the current chain of callbacks
    last,         \* the callback that ran last, and how it returned
    arg,          \* the values and flags update_inputs was last called with
    good,         \* the record and max_n calc_data last computed from
    nev,          \* number of edits made by the user
    herm          \* a call of hermite: its arguments, and what it returned

vars == <<val, fix, disabled, max_n, var_store, store, fig, trigger, pc, exc,
          last, arg, good, nev, herm>>

Fields == <<"lin_wn", "ang_wn", "fc", "rm">>
FieldSet == {Fields[i] : i \in 1..4}
Digits(f) == IF f = "rm" THEN 4 ELSE 2

\* edits the user makes before the page is left alone
MaxEvents == 1

\* what the user types into a field: positive decimals, the placeholder
\* values among them, one per field with more decimals than are displayed
TypedVals(f) ==
    CASE f = "lin_wn" -> {Rat(2888, 1), Rat(1001, 1000)}
      [] f = "ang_wn" -> {Rat(12, 1), Rat(1296, 1000)}
      [] f = "fc" -> {Rat(480, 1), Rat(1023, 1000)}
      [] f = "rm" -> {Rat(9768, 10000), Rat(92004, 100000)}
\* the values a field can display
Shown(f) == {round(v, Digits(f), v) : v \in TypedVals(f)}
\* what the user types into Max. n (min 0, max 25), or clears it
MAX_N_MIN == 0
MAX_N_MAX == 25
TypedMaxN == {None, Some(MAX_N_MIN), Some(1), Some(MAX_N_DEFAULT)}

\* plot_div.store as constructed: no dataset
PlotStoreInit == EmptyDict

Init ==
    /\ val = [lin_wn |-> Rat(2888, 1), ang_wn |-> ANG_WN_DEFAULT,
              fc |-> Rat(480, 1), rm |-> Rat(9768, 10000)]
    /\ fix = [lin_wn |-> FALSE, ang_wn |-> FALSE, fc |-> TRUE, rm |-> TRUE]
    /\ disabled = [f \in FieldSet |-> FALSE]
    /\ max_n = Some(MAX_N_DEFAULT)
    /\ var_store = EmptyDict
    /\ store = PlotStoreInit
    /\ fig = None
    /\ trigger = None
    /\ pc = "update_inputs"
    /\ exc = "none"
    /\ last = [cb |-> "none", res |-> "none"]
    /\ arg = None
    /\ good = None
    /\ nev = 0
    /\ herm = None

\* how a callback returned
Res(r) == IF r = no_update THEN "no_update"
          ELSE IF Raised(r) THEN r.raise ELSE "value"

\* The user types v into an enabled number field.
TypeValue(f, v) ==
    /\ pc = "idle" /\ nev < MaxEvents
    /\ ~disabled[f] /\ v # val[f]
    /\ val' = [val EXCEPT ![f] = v]
    /\ pc' = "update_inputs" /\ exc' = "none" /\ nev' = nev + 1
    /\ UNCHANGED <<fix, disabled, max_n, var_store, store, fig, trigger,
                   last, arg, good, herm>>

\* The user ticks or unticks a "fixed" checkbox.
ToggleFix(f) ==
    /\ pc = "idle" /\ nev < MaxEvents
    /\ fix' = [fix EXCEPT ![f] = ~fix[f]]
    /\ pc' = "update_inputs" /\ exc' = "none" /\ nev' = nev + 1
    /\ UNCHANGED <<val, disabled, max_n, var_store, store, fig, trigger,
                   last, arg, good, herm>>

\* The user changes Max. n.
SetMaxN(n) ==
    /\ pc = "idle" /\ nev < MaxEvents
    /\ n # max_n
    /\ max_n' = n
    /\ pc' = "calc_data" /\ exc' = "none" /\ nev' = nev + 1
    /\ UNCHANGED <<val, fix, disabled, var_store, store, fig, trigger,
                   last, arg, good, herm>>

\* The roundings a field's new value may have.  round() reads its hint
\* only for a value that is no decimal: one derived from the fixed values,
\* or the placeholder of the angular wavenumber.
Hints(f) ==
    IF IsRational(val[f])
       /\ (fix[f] \/ invalid_fix(fix.lin_wn, fix.ang_wn, fix.fc, fix.rm))
    THEN {val[f]} ELSE Shown(f)

\* The update_inputs callback: the fields and checkboxes in, var_store,
\* the fields' values and their disabled flags out.
UpdateInputs ==
    /\ pc = "update_inputs"
    /\ \E h1 \in Hints("lin_wn"), h2 \in Hints("ang_wn"),
          h3 \in Hints("fc"), h4 \in Hints("rm") :
        \E r \in {update_inputs(val.lin_wn, val.ang_wn, val.fc, val.rm,
                                fix.lin_wn, fix.ang_wn, fix.fc, fix.rm,
                                <<h1, h2, h3, h4>>)} :
               /\ var_store' = r.vars
               /\ val' = [lin_wn |-> r.rounded[1], ang_wn |-> r.rounded[2],
                          fc |-> r.rounded[3], rm |-> r.rounded[4]]
               /\ disabled' = [lin_wn |-> r.on_off[1], ang_wn |-> r.on_off[2],
                               fc |-> r.on_off[3], rm |-> r.on_off[4]]
    /\ arg' = Some([val |-> val, fix |-> fix])
    /\ last' = [cb |-> "update_inputs", res |-> "value"]
    /\ pc' = "calc_data"
    /\ UNCHANGED <<fix, max_n, store, fig, trigger, exc, good, nev, herm>>

\* The calc_data callback: var_store and Max. n in, plot_div.store out.
CalcData ==
    /\ pc = "calc_data"
    /\ \E r \in {calc_data(var_store, max_n)} :
           /\ last' = [cb |-> "calc_data", res |-> Res(r)]
           /\ IF r = no_update
              THEN /\ pc' = "idle"
                   /\ UNCHANGED <<store, exc, good>>
              ELSE IF Raised(r)
              THEN /\ pc' = "idle" /\ exc' = r.raise
                   /\ UNCHANGED <<store, good>>
              ELSE /\ store' = r
                   /\ good' = Some([vars |-> var_store, max_n |-> max_n])
                   /\ pc' = "update_plot"
                   /\ UNCHANGED exc
    /\ UNCHANGED <<val, fix, disabled, max_n, var_store, fig, trigger, arg,
                   nev, herm>>

\* The update_plot callback: plot_div.store in, the figure out.
UpdatePlot ==
    /\ pc = "update_plot"
    /\ \E r \in {update_plot(store)} :
           /\ last' = [cb |-> "update_plot", res |-> Res(r)]
           /\ IF Raised(r)
              THEN exc' = r.raise /\ UNCHANGED fig
              ELSE fig' = Some(r) /\ UNCHANGED exc
    /\ pc' = "idle"
    /\ UNCHANGED <<val, fix, disabled, max_n, var_store, store, trigger, arg,
                   good, nev, herm>>

\* The user clicks the download button: the download_data callback, with
\* plot_div.store as its State.  The click count is not read.
Download ==
    /\ \E r \in {download_data(1, store)} :
           /\ last' = [cb |-> "download_data", res |-> Res(r)]
           /\ trigger' = IF r = no_update THEN trigger ELSE Some(r)
    /\ UNCHANGED <<val, fix, disabled, max_n, var_store, store, fig, pc, exc,
                   arg, good, nev, herm>>

Next ==
    \/ \E f \in FieldSet : \E v \in TypedVals(f) : TypeValue(f, v)
    \/ \E f \in FieldSet : ToggleFix(f)
    \/ \E n \in TypedMaxN : SetMaxN(n)
    \/ UpdateInputs
    \/ CalcData
    \/ UpdatePlot
    \/ Download

Spec == Init /\ [][Next]_vars

\* ------------------------------------------- one load of the page, any inputs

\* Max. n as the field allows it: cleared, or MAX_N_MIN..MAX_N_MAX
FieldMaxN == {None} \cup {Some(n) : n \in MAX_N_MIN..MAX_N_MAX}
\* the four fields filled with typed values
FieldVals ==
    {[lin_wn |-> Rat(2888, 1), ang_wn |-> Rat(12, 1),
      fc |-> Rat(480, 1), rm |-> Rat(9768, 10000)],
     [lin_wn |-> Rat(1001, 1000), ang_wn |-> Rat(1296, 1000),
      fc |-> Rat(1023, 1000), rm |-> Rat(92004, 100000)]}

\* The page as it loads with the fields, the checkboxes and Max. n holding
\* any of their values: the callbacks then run once, in their order.
InitCalc ==
    /\ val \in FieldVals
    /\ fix \in [FieldSet -> BOOLEAN]
    /\ disabled = [f \in FieldSet |-> FALSE]
    /\ max_n \in FieldMaxN
    /\ var_store = EmptyDict
    /\ store = PlotStoreInit
    /\ fig = None
    /\ trigger = None
    /\ pc = "update_inputs"
    /\ exc = "none"
    /\ last = [cb |-> "none", res |-> "none"]
    /\ arg = None
    /\ good = None
    /\ nev = 0
    /\ herm = None

NextCalc ==
    \/ UpdateInputs
    \/ CalcData
    \/ UpdatePlot

SpecCalc == InitCalc /\ [][NextCalc]_vars

\* --------------------------------------- one load of the page, then exports

\* The page as it loads with its checkboxes as built (force constant and
\* mass fixed) and any typed values and Max. n; the user clicks download
\* whenever they like.
InitExport ==
    /\ val \in FieldVals
    /\ fix = [lin_wn |-> FALSE, ang_wn |-> FALSE, fc |-> TRUE, rm |-> TRUE]
    /\ disabled = [f \in FieldSet |-> FALSE]
    /\ max_n \in FieldMaxN
    /\ var_store = EmptyDict
    /\ store = PlotStoreInit
    /\ fig = None
    /\ trigger = None
    /\ pc = "update_inputs"
    /\ exc = "none"
    /\ last = [cb |-> "none", res |-> "none"]
    /\ arg = None
    /\ good = None
    /\ nev = 0
    /\ herm = None

NextExport ==
    \/ UpdateInputs
    \/ CalcData
    \/ UpdatePlot
    \/ Download

SpecExport == InitExport /\ [][NextExport]_vars

\* ------------------------------------------------------- a call of hermite

\* the orders whose values are computed: above it they leave the integers
\* of the checker on the arrays below
HermiteMaxN == 10
\* arrays hermite is called on
HermiteXs ==
    {<<0>>, <<1>>, <<-1>>, <<2>>, <<-3>>, <<0, 1>>, <<-2, 3>>, <<3, -3>>,
     <<1, -1, 2>>, <<-3, 0, 3, 2>>}

\* hermite is called with an order the page allows (harmonic_wf calls it
\* for n = 0 .. Max. n) and an array; nothing else happens.
InitHermite ==
    /\ val = [lin_wn |-> Rat(2888, 1), ang_wn |-> ANG_WN_DEFAULT,
              fc |-> Rat(480, 1), rm |-> Rat(9768, 10000)]
    /\ fix = [lin_wn |-> FALSE, ang_wn |-> FALSE, fc |-> TRUE, rm |-> TRUE]
    /\ disabled = [f \in FieldSet |-> FALSE]
    /\ max_n = Some(MAX_N_DEFAULT)
    /\ var_store = EmptyDict
    /\ store = PlotStoreInit
    /\ fig = None
    /\ trigger = None
    /\ pc = "hermite"
    /\ exc = "none"
    /\ last = [cb |-> "none", res |-> "none"]
    /\ arg = None
    /\ good = None
    /\ nev = 0
    /\ herm \in {Some([n |-> n, x |-> x, h |-> None, depth |-> None])
                 : n \in MAX_N_MIN..MAX_N_MAX, x \in HermiteXs}

\* the values hermite returns
HermiteValues ==
    /\ pc = "hermite" /\ herm # None
    /\ herm[1].h = None /\ herm[1].n <= HermiteMaxN
    /\ herm' = Some([herm[1] EXCEPT !.h = Some(hermite(herm[1].n, herm[1].x))])
    /\ UNCHANGED <<val, fix, disabled, max_n, var_store, store, fig, trigger,
                   pc, exc, last, arg, good, nev>>

\* the calls hermite makes on the way
HermiteCalls ==
    /\ pc = "hermite" /\ herm # None
    /\ herm[1].depth = None
    /\ herm' = Some([herm[1] EXCEPT !.depth = Some(hermite_depth(herm[1].n))])
    /\ UNCHANGED <<val, fix, disabled, max_n, var_store, store, fig, trigger,
                   pc, exc, last, arg, good, nev>>

NextHermite ==
    \/ HermiteValues
    \/ HermiteCalls

SpecHermite == InitHermite /\ [][NextHermite]_vars

\* ------------------------------------------------------------- properties

\* the flags as update_inputs rejects them, counted field by field
InvalidCombo(fx) ==
    \/ Cardinality({f \in FieldSet : fx[f]}) # 2
    \/ (fx.lin_wn /\ fx.ang_wn)
\* a record with a parameter that is None
AnyUndefined(rec) == \E key \in DOMAIN rec : rec[key] = None
\* decimals each field is displayed with
Decimals == [lin_wn |-> 2, ang_wn |-> 2, fc |-> 2, rm |-> 4]

\* C1: whenever the number of true 'fixed' flags is not exactly 2, or both
\* wavenumber flags are true, the record update_inputs returns has 'fc' and
\* 'mu' None, whatever the four values are.
InvalidFlagsLeaveFcMuNone ==
    (arg # None /\ InvalidCombo(arg[1].fix)) =>
        /\ {"fc", "mu"} \subseteq DOMAIN var_store
        /\ var_store.fc = None
        /\ var_store.mu = None

\* update_inputs has run with exactly the two wavenumber flags true
BothWavenumbersFixedSeen ==
    /\ arg # None
    /\ arg[1].fix = [lin_wn |-> TRUE, ang_wn |-> TRUE, fc |-> FALSE,
                     rm |-> FALSE]
    /\ arg[1].val.rm = Rat(92004, 100000)
    /\ var_store.fc = None

\* C2: for the five valid flag combinations the record holds fc, mu,
\* ang_wn and lin_wn, all defined and positive, with ang_wn = 2 pi lin_wn,
\* fc = mu * (ang_wn * c)^2 for mu in kg, and the fixed quantities those
\* typed in (the mass times 1.6605E-27): the other two follow from them.
ValidFlagsResolveAll ==
    (arg # None /\ ~InvalidCombo(arg[1].fix)) =>
        /\ DOMAIN var_store = {"fc", "mu", "ang_wn", "lin_wn"}
        /\ \A key \in DOMAIN var_store :
               var_store[key] # None /\ var_store[key][1].sg = 1
        /\ var_store.ang_wn[1] = Mul(TWOPI, var_store.lin_wn[1])
        /\ var_store.fc[1] =
               Mul(var_store.mu[1], Sq(Mul(var_store.ang_wn[1], LIGHT)))
        /\ arg[1].fix.lin_wn => var_store.lin_wn[1] = arg[1].val.lin_wn
        /\ arg[1].fix.ang_wn => var_store.ang_wn[1] = arg[1].val.ang_wn
        /\ arg[1].fix.fc => var_store.fc[1] = arg[1].val.fc
        /\ arg[1].fix.rm => var_store.mu[1] = Mul(arg[1].val.rm, AMU)

\* update_inputs has derived the force constant from the angular
\* wavenumber and the mass
ForceConstantDerivedSeen ==
    /\ arg # None
    /\ arg[1].fix = [lin_wn |-> FALSE, ang_wn |-> TRUE, fc |-> FALSE,
                     rm |-> TRUE]
    /\ var_store.fc # None
    /\ var_store.fc[1] # arg[1].val.fc

\* the ground-state energy in cm-1 and the number of states a dataset has
\* when it is computed from the record rec and the Max. n value n
FromRecord(data, rec, n) ==
    /\ Len(data.states) = (IF n = None THEN 5 ELSE n[1]) + 1
    /\ data.states[1] =
           Div(Mul(Mul(HBAR, Div(Sqrt(Div(rec.fc[1], rec.mu[1])), TWOPI)),
                   HALF), JCM)

\* C3: when a parameter of the record is None, calc_data returns no_update
\* and raises nothing, and plot_div.store is left as it was; the store
\* changes only when calc_data runs on a record without None, to the
\* dataset of that record and Max. n.
UndefinedRecordKeepsStore ==
    [][/\ (pc = "calc_data" /\ pc' # pc /\ AnyUndefined(var_store)) =>
              /\ store' = store
              /\ exc' = exc
              /\ last' = [cb |-> "calc_data", res |-> "no_update"]
       /\ store' # store =>
              /\ pc = "calc_data"
              /\ ~AnyUndefined(var_store)
              /\ FromRecord(store', var_store, max_n)]_vars

\* calc_data has returned no_update while the store held a dataset
NoUpdateOverDatasetSeen ==
    /\ last = [cb |-> "calc_data", res |-> "no_update"]
    /\ AnyUndefined(var_store)
    /\ store # EmptyDict
    /\ good # None /\ good[1].vars # var_store

\* C4 as the specification states it: with the record undefined, a click
\* on download produces no file, also after an earlier dataset.
UndefinedRecordExportsNothing ==
    (last.cb = "download_data" /\ AnyUndefined(var_store)) =>
        last.res = "no_update"

\* C4: with the record undefined, a click on download produces no file
\* exactly when plot_div.store holds no dataset; a dataset kept from an
\* earlier resolution is written to the file.
UndefinedRecordExportsStoredDataset ==
    (last.cb = "download_data" /\ AnyUndefined(var_store)) =>
        IF store = EmptyDict
        THEN last.res = "no_update"
        ELSE /\ last.res = "value"
             /\ trigger # None
             /\ trigger[1].filename = "waveplot_harmonic_data.dat"
             /\ trigger[1].content[2].rows =
                    [i \in 1..Len(store.states) |-> <<Fmt(store.states[i], 6)>>]

\* a file was written while the record was undefined
StaleDatasetExportedSeen ==
    /\ last = [cb |-> "download_data", res |-> "value"]
    /\ AnyUndefined(var_store)
    /\ trigger # None

\* C5: download_data on an empty plot_div.store returns no_update, and
\* nothing is written to the download trigger.
EmptyStoreExportsNothing ==
    (last.cb = "download_data" /\ store = EmptyDict) =>
        (last.res = "no_update" /\ trigger = None)

\* download was clicked on an empty store
EmptyStoreClickSeen ==
    /\ last = [cb |-> "download_data", res |-> "no_update"]
    /\ store = EmptyDict

\* C6 as the specification states it: whatever the flags and Max. n in
\* 0..25, no callback of the chain raises.
NoCallbackRaises == exc = "none"

\* C7: in both outcomes update_inputs returns each field enabled exactly
\* when its own 'fixed' flag is true.
EnabledIffFixed ==
    arg # None => \A f \in FieldSet : disabled[f] = ~arg[1].fix[f]

\* a failed resolution has returned an enabled and a disabled wavenumber
FailedResolutionMixedSeen ==
    /\ arg # None
    /\ InvalidCombo(arg[1].fix)
    /\ ~disabled.lin_wn /\ disabled.ang_wn
    /\ ~disabled.fc /\ ~disabled.rm

\* C8: update_inputs returns a field's value as typed, rounded to the
\* field's decimals, unless the flags are valid and the field is not
\* fixed: all four on a failed resolution, the two fixed ones on a
\* successful one.
OnlyDerivedFieldsChange ==
    (arg # None /\ pc # "update_inputs") =>
        \A f \in FieldSet :
            (InvalidCombo(arg[1].fix) \/ arg[1].fix[f]) =>
                val[f] = round(arg[1].val[f], Decimals[f], arg[1].val[f])

\* a failed resolution has rounded a mass typed with five decimals
FailedResolutionRoundedSeen ==
    /\ arg # None /\ pc # "update_inputs"
    /\ InvalidCombo(arg[1].fix)
    /\ arg[1].val.rm = Rat(92004, 100000)
    /\ val.rm = Rat(92, 100)
    /\ val.fc = Rat(102, 100)

\* the N of a Max. n value: 5 when the field is cleared
NOf(n) == IF n = None THEN 5 ELSE n[1]

\* C9: the dataset calc_data produces for Max. n = N in 0..25 has N + 1
\* state energies, entry n that of quantum number n (2n + 1 times the
\* first), N + 1 wavefunctions for n = 0..N of 100 values each, a
\* potential of 100 values and a grid of 100 values with x[i] = -x[99-i];
\* a missing Max. n counts as 5.
DatasetShape ==
    good # None =>
        LET N == NOf(good[1].max_n) IN
        /\ N \in 0..25
        /\ Len(store.states) = N + 1
        /\ \A i \in 1..Len(store.states) :
               store.states[i] = Mul(FromInt(2 * (i - 1) + 1), store.states[1])
        /\ Len(store.wf) = N + 1
        /\ \A i \in 1..Len(store.wf) :
               store.wf[i].n = i - 1 /\ ArrLen(store.wf[i].bx) = 100
        /\ ArrLen(store.potential) = 100
        /\ ArrLen(store.x) = 100
        /\ \A i \in 1..ArrLen(store.x) :
               store.x.c[i] = -store.x.c[ArrLen(store.x) + 1 - i]
        /\ \A i \in {1, 2, 50, 100} :
               ArrAt(store.x, i) = Neg(ArrAt(store.x, 101 - i))

\* calc_data has produced a dataset with Max. n cleared
DefaultMaxNDatasetSeen ==
    /\ good # None
    /\ good[1].max_n = None
    /\ Len(store.states) = 6
    /\ Len(store.wf) = 6

\* C10: for a positive force constant and mass the state energies grow
\* strictly with n, by the same step from each n to the next.
EnergiesEvenlySpaced ==
    (good # None /\ good[1].vars.fc[1].sg = 1 /\ good[1].vars.mu[1].sg = 1) =>
        \A i \in 1..(Len(store.states) - 1) :
            \E step \in {Sub(store.states[i + 1], store.states[i])} :
                /\ Less(store.states[i], store.states[i + 1])
                /\ step = Sub(store.states[2], store.states[1])

\* calc_data has produced the 26 energies of Max. n = 25
MaxStatesDatasetSeen ==
    /\ good # None
    /\ good[1].max_n = Some(25)
    /\ Len(store.states) = 26
    /\ Less(store.states[25], store.states[26])

\* C11: hermite(n, x) is 1 for n = 0, 2x for n = 1 and 4x^2 - 2 for n = 2
\* at every element of x, for n >= 2 it is 2x hermite(n-1, x) -
\* 2(n-1) hermite(n-2, x), and for every n in 0..25 the recursion ends
\* with at most n calls nested inside the first.
HermiteRecursion ==
    herm # None =>
        /\ herm[1].h # None =>
               /\ DOMAIN herm[1].h[1] = DOMAIN herm[1].x
               /\ \A i \in DOMAIN herm[1].x :
                      \E h \in {herm[1].h[1][i]}, x \in {herm[1].x[i]},
                         n \in {herm[1].n} :
                          /\ n = 0 => h = 1
                          /\ n = 1 => h = 2 * x
                          /\ n = 2 => h = 4 * x * x - 2
                          /\ n >= 2 =>
                                 h = 2 * x * hermite(n - 1, herm[1].x)[i]
                                     - 2 * (n - 1) * hermite(n - 2, herm[1].x)[i]
        /\ herm[1].depth # None =>
               /\ herm[1].n \in 0..25
               /\ herm[1].depth[1] <= herm[1].n

\* hermite(2, x) has returned 4x^2 - 2 on an array of two elements
HermiteOrderTwoSeen ==
    /\ herm # None
    /\ herm[1].n = 2
    /\ herm[1].x = <<-2, 3>>
    /\ herm[1].h = Some(<<14, 34>>)
    /\ herm[1].depth = Some(1)

\* C12 as the specification states it: the wavefunction table of the file
\* has one row per grid point (100 rows), row i with x[i] and then the
\* N + 1 values psi_0(x[i]) .. psi_N(x[i]).
WavefunctionTableRowPerGridPoint ==
    last = [cb |-> "download_data", res |-> "value"] =>
        \E rows \in {trigger[1].content[4].rows} :
            /\ Len(rows) = 100
            /\ Len(rows) = ArrLen(store.x)
            /\ \A i \in 1..Len(rows) :
                   \* the values formatted after the displacement
                   ArrLen(rows[i][2].v.bx) = Len(store.states)

\* The grid displacements in metres behind the dataset of a resolved record.
GridDisplacement(rec, n) == calc_harmonic_energies(rec.fc[1], rec.mu[1], n).displacement

\* C13 as the specification states it: every displacement written to the
\* file, in the potential table and in the wavefunction table, is the grid
\* displacement in metres times 10^11 (the factor applied exactly once).
ExportedDisplacementScaledOnce ==
    last = [cb |-> "download_data", res |-> "value"] =>
        \E d \in {ArrScale(GridDisplacement(good[1].vars, Len(store.states) - 1), TEN_E10)} :
            /\ \A i \in 1..GRID_POINTS :
                   ArrAt(trigger[1].content[3].rows.cols[1].v, i) = ArrAt(d, i)
            /\ \A i \in 1..Len(trigger[1].content[4].rows) :
                   trigger[1].content[4].rows[i][1].v = ArrAt(d, i)

\* C14: for a non-empty dataset the file is named
\* waveplot_harmonic_data.dat and its sections come in a fixed order: the
\* header, the state energies one per line (N + 1 lines, n ascending), the
\* displacement/potential table with one row per grid point, and the
\* displacement/wavefunction table.
ExportSectionsInOrder ==
    last = [cb |-> "download_data", res |-> "value"] =>
        \E c \in {trigger[1].content} :
            /\ trigger[1].filename = "waveplot_harmonic_data.dat"
            /\ Len(c) = 4
            /\ c[1].title = "Vibrational wavefunction data calculated using waveplot.com / A tool by Jon Kragskow"
            /\ c[1].rows = <<>>
            /\ c[2].title = "State energies (cm-1)"
            /\ Len(c[2].rows) = NOf(good[1].max_n) + 1
            /\ \A i \in 1..Len(c[2].rows) :
                   /\ c[2].rows[i] = <<Fmt(store.states[i], 6)>>
                   /\ store.states[i] =
                          Div(Mul(Mul(HBAR, Div(Sqrt(Div(good[1].vars.fc[1], good[1].vars.mu[1])), TWOPI)),
                                  Rat(2 * i - 1, 2)), JCM)
            /\ c[3].title = "Displacement (A), Harmonic potential (cm-1)"
            /\ c[3].rows.n = GRID_POINTS
            /\ ArrLen(c[3].rows.cols[1].v) = GRID_POINTS
            /\ ArrLen(c[3].rows.cols[2].v) = GRID_POINTS
            /\ c[3].rows.cols[2].v = store.potential
            /\ c[4].title = "Displacement (A), Harmonic Wavefunction for n=0, n=1, ..."

\* a file has been written for the largest dataset, 26 states
LargestDatasetExportedSeen ==
    /\ last = [cb |-> "download_data", res |-> "value"]
    /\ Len(store.states) = MAX_N_MAX + 1
    /\ Len(trigger[1].content[2].rows) = MAX_N_MAX + 1

\* The traces of a figure are those the specification lists for the
\* dataset data of N + 1 states: the potential, one flat segment per state
\* from min(x) to max(x) at its energy, then one curve per wavefunction,
\* curve n being 0.01 * psi_n(x) + E_n.
TracesOf(figure, data) ==
    \E N \in {Len(data.states) - 1} :
        /\ Len(figure.data) = 2 * N + 3
        /\ figure.data[1] = [name |-> "potential", x |-> data.x, y |-> data.potential]
        /\ \A n \in 0..N :
               /\ figure.data[2 + n] =
                      [name |-> "state",
                       x |-> <<ArrAt(data.x, 1), ArrAt(data.x, GRID_POINTS)>>,
                       y |-> <<data.states[n + 1], data.states[n + 1]>>]
               /\ figure.data[N + 3 + n] =
                      [name |-> "wf", x |-> data.x,
                       y |-> [scale |-> Rat(1, 100), wf |-> data.wf[n + 1],
                              offset |-> data.states[n + 1]]]
               /\ data.wf[n + 1].n = n

\* C15 as the specification states it: for a dataset with N + 1 states,
\* update_plot produces exactly 2N + 3 traces, in the order potential,
\* state segments (n ascending), wavefunction curves (n ascending).
PlotHasAllTraces ==
    last.cb = "update_plot" => (fig # None /\ TracesOf(fig[1], store))

\* C16: for every dataset with N >= 1 the y axis of the figure runs from
\* E_0 - (E_N - E_(N-1)) / 2 to 2 E_N - E_(N-1), and every state energy
\* lies strictly inside that range.
YRangeHoldsEveryState ==
    (last.cb = "update_plot" /\ Len(store.states) >= 2) =>
        \E E \in {store.states} : \E N \in {Len(store.states) - 1} :
            /\ fig # None
            /\ fig[1].range[1] = Sub(E[1], Div(Sub(E[N + 1], E[N]), TWO))
            /\ fig[1].range[2] = Sub(Mul(TWO, E[N + 1]), E[N])
            /\ \A i \in 1..(N + 1) :
                   /\ Less(fig[1].range[1], E[i])
                   /\ Less(E[i], fig[1].range[2])

\* a figure has been drawn for the smallest such dataset, two states
TwoStateFigureSeen ==
    /\ last = [cb |-> "update_plot", res |-> "value"]
    /\ Len(store.states) = 2
    /\ fig # None

\* exactly one wavenumber and exactly one of force constant and mass fixed
WavenumberAndOne(fx) ==
    /\ fx.lin_wn # fx.ang_wn
    /\ fx.fc # fx.rm

\* C17: when one wavenumber and one of force constant and reduced mass are
\* fixed, the record's (fc, mu) pair gives back the angular frequency it was
\* derived from: sqrt(fc / mu_kg) / c, the rule for fc and mu both fixed,
\* times c is the omega of the fixed wavenumber (on the unrounded values).
RoundTripReproducesOmega ==
    (arg # None /\ WavenumberAndOne(arg[1].fix)) =>
        \E omega \in {IF arg[1].fix.ang_wn
                      THEN Mul(arg[1].val.ang_wn, LIGHT)
                      ELSE Mul(Mul(Mul(arg[1].val.lin_wn, TWO), PI), LIGHT)} :
            \E ang_wn \in {Div(Sqrt(Div(var_store.fc[1], Mul(Div(var_store.mu[1], AMU), AMU))), LIGHT)} :
                /\ Mul(ang_wn, LIGHT) = omega
                /\ ang_wn = var_store.ang_wn[1]

\* update_inputs has derived the mass from the linear wavenumber and the
\* force constant
MassDerivedSeen ==
    /\ arg # None
    /\ arg[1].fix = [lin_wn |-> TRUE, ang_wn |-> FALSE, fc |-> TRUE,
                     rm |-> FALSE]
    /\ var_store.mu # None
    /\ var_store.mu[1] # Mul(arg[1].val.rm, AMU)

\* C18 as the specification states it: within one calc_data pass the
\* wavefunctions are built (beta and the normalisation constant of
\* harmonic_wf) with the omega = sqrt(k/m) / (2 pi), and the same HBAR, that
\* calc_harmonic_energies uses for the state energies and the grid.
WavefunctionsUseEnergyOmega ==
    last = [cb |-> "calc_data", res |-> "value"] =>
        \E k \in {good[1].vars.fc[1]}, m \in {good[1].vars.mu[1]} :
            \E omega \in {Div(Sqrt(Div(k, m)), TWOPI)} :
                /\ store.states[1] = Div(Mul(Mul(HBAR, omega), HALF), JCM)
                /\ store.wf[1].bx =
                       ArrScale(GridDisplacement(good[1].vars, Len(store.states) - 1),
                                Sqrt(Div(Mul(m, omega), HBAR)))
                /\ store.wf[1].N = Root4(Div(Mul(m, omega), Mul(PI, HBAR)))

====
